---- MODULE Spec2Model ----
(***************************************************************************)
(* Nodal-analysis equation synthesis (lcapy/nodalanalysis.py) and the      *)
(* common-node sets of the schematic layout (lcapy/schematic.py).          *)
(*                                                                         *)
(* Node names are strings.  Symbolic expressions are kept as structure:    *)
(* a sum is the sequence of its terms, a term is a record                  *)
(*   [fn, elt, p, m, kind]                                                 *)
(* fn = "0"          the constant 0                                        *)
(* fn = "y"          the unknown voltage of node p, named with prefix m    *)
(* fn = "v_equation" elt.cpt.v_equation(0, kind)                           *)
(* fn = "i_equation" elt.cpt.i_equation(ydict[p] - ydict[m], kind)         *)
(* fn = "Current0"   Current(0).select(kind)                               *)
(***************************************************************************)
EXTENDS Integers, Sequences, FiniteSets, TLC

VARIABLES
    cct,        \* the netlist: sequence of components, in insertion order
    cctKind,    \* cct.kind
    na,         \* the NodalAnalysis object (na.state = "none" before construction)
    na2,        \* a second NodalAnalysis object built from the same netlist
    eqCall,     \* outcome of the last NodalAnalysis.equations() call
    cnodes,     \* Cnodes: node name -> tuple of the names sharing its common node
    linked,     \* history: the sequence of (n1, n2) pairs given to Cnodes.link
    graphs,     \* Graphs: the forward and the reverse layout graph, and their names
    fwdPath,    \* outcome of graphs.fwd.longest_path()
    revPath,    \* outcome of graphs.rev.longest_path()
    schem,      \* the Schematic object
    lastCall,   \* the last call on schem and what it returned or raised
    addedLog,   \* history: the components Schematic.add has stored, in order
    printed,    \* the lines Schematic.add has printed
    sexpr,      \* a seqExpr: the indices at which the expression is not zero
    nexpr       \* an nExpr: what is_dc, is_ac, is_causal find, and its assumptions

nodalVars == <<cct, cctKind, na, na2, eqCall>>

cnodesVars == <<cnodes, linked>>

graphVars == <<graphs, fwdPath, revPath>>

schVars == <<schem, lastCall, addedLog, printed>>

exprVars == <<sexpr, nexpr>>

vars == <<nodalVars, cnodesVars, graphVars, schVars, exprVars>>

-----------------------------------------------------------------------------
(* Bounds *)

\* most components in a netlist
MaxCpts == 3

\* most Cnodes.link calls in a run
MaxLinks == 3

\* most edges a layout graph is given
MaxEdges == 3

\* most components a schematic is given
MaxAdds == 3

\* nodes of a layout graph built by hand: common-node tuples of one name each
GNodes == {<<"a">>, <<"b">>, <<"c">>}

\* sizes handed to Graphs.add
Sizes == {-1, 0, 1, 2}

\* the interpreter's limit on nested calls, scaled to the graphs above: a path
\* through 'start' and every node of GNodes nests four calls
RecursionLimit == 6

\* node names, in ascending (string) order; '*1' sorts before '0'
NameOrder == <<"*1", "0", "1", "2">>

\* names a netlist line may use for a terminal
TerminalNames == {"0", "1", "2"}

\* analysis domains of a circuit
Kinds == {"laplace", "time", "super"}

\* nodes of a schematic handed to Cnodes
SchNodes == {"a", "b", "c"}

-----------------------------------------------------------------------------
(* Strings and sorting *)

\* node.startswith('*')
StartsWithStar(node) == node \in {"*1"}

\* sorted(names) as a sequence
Sorted(names) == SelectSeq(NameOrder, LAMBDA n : n \in names)

Reverse(s) == [i \in 1..Len(s) |-> s[Len(s) + 1 - i]]

Range(s) == {s[i] : i \in 1..Len(s)}

\* the one member of a set of one: The({e : x \in {v}}) is e with x bound to v,
\* and v is worked out once, as the right-hand side of an assignment is
The(S) == CHOOSE y \in S : TRUE

-----------------------------------------------------------------------------
(* Components of a netlist *)

NonRef == TerminalNames \ {"0"}

\* two-terminal components between distinct nodes, either orientation
TwoTerminal == {t \in TerminalNames \X TerminalNames : t[1] # t[2]}

\* a component record with too few terminals
OneTerminal == {<<a>> : a \in NonRef}

\* a controlled source: output (a, 0) controlled by the voltage of (c, 0)
FourTerminal == {<<t[1], "0", t[2], "0">> : t \in {u \in NonRef \X NonRef : u[1] # u[2]}}

CptShapes ==
    [type : {"R", "V"}, nodenames : TwoTerminal]
        \cup [type : {"R"}, nodenames : OneTerminal]
        \cup [type : {"E"}, nodenames : FourTerminal]

Malformed(elt) == Len(elt.nodenames) < 2

-----------------------------------------------------------------------------
(* CircuitGraph: lcapy/circuitgraph.py *)

\* G.node_map: public node name -> merged representative.  Names are merged
\* by wires only; the netlists here hold no wire, so each name stands for itself.
node_map(c, name) == name

\* the set of node names of the graph: every terminal of every component, and
\* the internal node '*1' a multi-terminal component introduces
GraphNodeSet(c) ==
    UNION {Range(c[i].nodenames) : i \in 1..Len(c)}
        \cup (IF \E i \in 1..Len(c) : Len(c[i].nodenames) > 2 THEN {"*1"} ELSE {})

\* G.nodes(): the node names in the order the graph reports them
GraphNodes(c, order) ==
    IF order = "ascending" THEN Sorted(GraphNodeSet(c)) ELSE Reverse(Sorted(GraphNodeSet(c)))

\* incidence of one component at a node: once per terminal on that node
Touches(elt, node) ==
    [i \in 1..Cardinality({j \in 1..Len(elt.nodenames) : elt.nodenames[j] = node}) |-> elt]

\* G.connected(node): the components touching the node, in insertion order
RECURSIVE ConnectedFrom(_, _, _)
ConnectedFrom(c, node, i) ==
    IF i > Len(c) THEN <<>>
    ELSE Touches(c[i], node) \o ConnectedFrom(c, node, i + 1)

connected(c, node) == ConnectedFrom(c, node, 1)

\* cct.node_list: the circuit's node names, sorted alphabetically
node_list(c) == Sorted(UNION {Range(c[i].nodenames) : i \in 1..Len(c)})

-----------------------------------------------------------------------------
(* NodalAnalysis: lcapy/nodalanalysis.py *)

node_prefix == ""

NoError == [exc |-> "none", elt |-> 0]

Term(fn, elt, p, m, kind) == [fn |-> fn, elt |-> elt, p |-> p, m |-> m, kind |-> kind]

Const0 == Term("0", 0, "", "", "")

\* the kind taken over as it is, 'super' included
SelfKindUnmapped(k) == k

\* __init__: self.kind
SelfKind(k) == IF k = "super" THEN "time" ELSE k

\* the value _make_unknowns stores under a node
Unknown(node, kind) ==
    IF node = "0" THEN Const0 ELSE Term("y", 0, node, node_prefix, kind)

\* _make_unknowns: ordered dictionary, as the sequence of its items
RECURSIVE UnknownsFrom(_, _, _)
UnknownsFrom(nl, kind, i) ==
    IF i > Len(nl) THEN <<>>
    ELSE IF StartsWithStar(nl[i]) THEN UnknownsFrom(nl, kind, i + 1)
    ELSE <<[key |-> nl[i], val |-> Unknown(nl[i], kind)]>> \o UnknownsFrom(nl, kind, i + 1)

_make_unknowns(c, kind) == UnknownsFrom(node_list(c), kind, 1)

\* self.ydict[n]
Lookup(ydict, n) == (CHOOSE i \in 1..Len(ydict) : ydict[i].key = n)

YdictAt(ydict, n) == ydict[Lookup(ydict, n)].val

\* self.y: the values of ydict whose key is not '0', in ydict order
YVector(ydict) == SelectSeq(ydict, LAMBDA it : it.key # "0")

\* the pinning constraint with the two terminals exchanged
PinEquationSwapped(c, ydict, kind, elt) ==
    LET n1 == node_map(c, elt.nodenames[1])
        n2 == node_map(c, elt.nodenames[2])
        V  == Term("v_equation", elt.name, "", "", kind)
    IN  [lhs |-> <<YdictAt(ydict, n2)>>, rhs |-> <<YdictAt(ydict, n1), V>>]

\* the pinning constraint of a voltage source
PinEquation(c, ydict, kind, elt) ==
    LET n1 == node_map(c, elt.nodenames[1])
        n2 == node_map(c, elt.nodenames[2])
        V  == Term("v_equation", elt.name, "", "", kind)
    IN  [lhs |-> <<YdictAt(ydict, n1)>>, rhs |-> <<YdictAt(ydict, n2), V>>]

\* one pass of the KCL loop that never exchanges the two terminals
KclTermNoSwap(c, kind, node, elt) ==
    IF Len(elt.nodenames) < 2
    THEN [error |-> [exc |-> "ValueError", elt |-> elt.name], term |-> Const0]
    ELSE LET n1 == node_map(c, elt.nodenames[1])
             n2 == node_map(c, elt.nodenames[2])
         IN  IF node = n1 \/ node = n2
             THEN [error |-> NoError, term |-> Term("i_equation", elt.name, n1, n2, kind)]
             ELSE [error |-> [exc |-> "ValueError", elt |-> elt.name], term |-> Const0]

\* one pass of the KCL loop: the term of elt at node, or the error it raises
KclTerm(c, kind, node, elt) ==
    IF Len(elt.nodenames) < 2
    THEN [error |-> [exc |-> "ValueError", elt |-> elt.name], term |-> Const0]
    ELSE LET n1 == node_map(c, elt.nodenames[1])
             n2 == node_map(c, elt.nodenames[2])
         IN  IF node = n1
             THEN [error |-> NoError, term |-> Term("i_equation", elt.name, n1, n2, kind)]
             ELSE IF node = n2
             THEN [error |-> NoError, term |-> Term("i_equation", elt.name, n2, n1, kind)]
             ELSE [error |-> [exc |-> "ValueError", elt |-> elt.name], term |-> Const0]

\* the KCL loop over the incidence list, stopping at the first error
RECURSIVE KclSum(_, _, _, _, _, _)
KclSum(c, kind, node, elts, i, acc) ==
    IF i > Len(elts) THEN [error |-> NoError, sum |-> acc]
    ELSE LET r == KclTerm(c, kind, node, elts[i])
         IN  IF r.error # NoError THEN [error |-> r.error, sum |-> acc]
             ELSE KclSum(c, kind, node, elts, i + 1, Append(acc, r.term))

\* the loop body that pins a node only when nothing but voltage sources touch it
NodeEquationSourcesOnly(c, ydict, kind, node) ==
    LET voltage_sources == SelectSeq(connected(c, node), LAMBDA e : e.type = "V")
    IN  IF voltage_sources # <<>> /\ Len(voltage_sources) = Len(connected(c, node))
        THEN LET e == PinEquation(c, ydict, kind, voltage_sources[1])
             IN  [error |-> NoError, lhs |-> e.lhs, rhs |-> e.rhs]
        ELSE LET r == KclSum(c, kind, node, connected(c, node), 1,
                             <<Term("Current0", 0, "", "", kind)>>)
             IN  [error |-> r.error, lhs |-> r.sum, rhs |-> <<Const0>>]

\* the loop body taking the last of the voltage sources at the node
NodeEquationLastSource(c, ydict, kind, node) ==
    LET voltage_sources == SelectSeq(connected(c, node), LAMBDA e : e.type = "V")
    IN  IF voltage_sources # <<>>
        THEN LET e == PinEquation(c, ydict, kind, voltage_sources[Len(voltage_sources)])
             IN  [error |-> NoError, lhs |-> e.lhs, rhs |-> e.rhs]
        ELSE LET r == KclSum(c, kind, node, connected(c, node), 1,
                             <<Term("Current0", 0, "", "", kind)>>)
             IN  [error |-> r.error, lhs |-> r.sum, rhs |-> <<Const0>>]

\* the body of the loop of _make_equations for one node that is not skipped
NodeEquation(c, ydict, kind, node) ==
    LET voltage_sources == SelectSeq(connected(c, node), LAMBDA e : e.type = "V")
    IN  IF voltage_sources # <<>>
        THEN IF Len(voltage_sources[1].nodenames) < 2
             THEN [error |-> [exc |-> "IndexError", elt |-> voltage_sources[1].name],
                   lhs |-> <<>>, rhs |-> <<>>]
             ELSE LET e == PinEquation(c, ydict, kind, voltage_sources[1])
                  IN  [error |-> NoError, lhs |-> e.lhs, rhs |-> e.rhs]
        ELSE LET r == KclSum(c, kind, node, connected(c, node), 1,
                             <<Term("Current0", 0, "", "", kind)>>)
             IN  [error |-> r.error, lhs |-> r.sum, rhs |-> <<Const0>>]

\* passing over the reference node only
SkippedReferenceOnly(node) == node = "0"

\* whether _make_equations passes over a node
Skipped(node) == node = "0" \/ StartsWithStar(node)

\* equations[node] = (lhs, rhs) on a dictionary kept as the sequence of its items
SetItem(eqs, node, lhs, rhs) ==
    IF \E i \in 1..Len(eqs) : eqs[i].node = node
    THEN [i \in 1..Len(eqs) |->
             IF eqs[i].node = node THEN [node |-> node, lhs |-> lhs, rhs |-> rhs] ELSE eqs[i]]
    ELSE Append(eqs, [node |-> node, lhs |-> lhs, rhs |-> rhs])

\* _make_equations: the loop over self.nodes()
RECURSIVE EquationsFrom(_, _, _, _, _, _)
EquationsFrom(c, ydict, kind, nodes, i, eqs) ==
    IF i > Len(nodes) THEN [error |-> NoError, equations |-> eqs]
    ELSE IF Skipped(nodes[i]) THEN EquationsFrom(c, ydict, kind, nodes, i + 1, eqs)
    ELSE LET r == NodeEquation(c, ydict, kind, nodes[i])
         IN  IF r.error # NoError THEN [error |-> r.error, equations |-> <<>>]
             ELSE EquationsFrom(c, ydict, kind, nodes, i + 1,
                                SetItem(eqs, nodes[i], r.lhs, r.rhs))

\* the loop leaving at the reference node instead of passing over it
_make_equations_break(c, ydict, kind, nodes) ==
    LET stop == IF \E i \in 1..Len(nodes) : nodes[i] = "0"
                THEN (CHOOSE i \in 1..Len(nodes) : nodes[i] = "0") - 1
                ELSE Len(nodes)
    IN  EquationsFrom(c, ydict, kind, SubSeq(nodes, 1, stop), 1, <<>>)

_make_equations(c, ydict, kind, nodes) == EquationsFrom(c, ydict, kind, nodes, 1, <<>>)

NoAnalysis ==
    [state |-> "none", kind |-> "", order |-> "", ydict |-> <<>>, y |-> <<>>,
     equations |-> <<>>, error |-> NoError]

\* NodalAnalysis.__init__
NewAnalysis(c, k, order) ==
    LET kind  == SelfKind(k)
        ydict == _make_unknowns(c, kind)
        r     == _make_equations(c, ydict, kind, GraphNodes(c, order))
    IN  [state |-> IF r.error = NoError THEN "constructed" ELSE "failed",
         kind |-> kind, order |-> order, ydict |-> ydict, y |-> YVector(ydict),
         equations |-> r.equations, error |-> r.error]

\* self.equations_dict as _analyse reads it: the attribute itself, never called
equations_dict_attribute == "bound method"

\* _analyse
_analyse(a) ==
    IF equations_dict_attribute = "bound method"
    THEN [raised |-> "AttributeError", analysed |-> TRUE, rows |-> <<>>]
    ELSE [raised |-> "none", analysed |-> TRUE,
          rows |-> [i \in 1..Len(a.equations) |-> a.equations[i].node]]

\* NodalAnalysis.equations
equations(a) ==
    IF a.kind = "time"
    THEN [raised |-> "ValueError", analysed |-> FALSE, rows |-> <<>>]
    ELSE _analyse(a)

NotCalled == [raised |-> "not called", analysed |-> FALSE, rows |-> <<>>]

-----------------------------------------------------------------------------
(* Cnodes: lcapy/schematic.py *)

\* Cnodes.__init__
CnodesInit(nodes) == [n \in nodes |-> <<n>>]

\* the Cnodes of no node
NoCnodes == CnodesInit({})

\* one of the two loops of link: self[n] = newset for n in members
Assign(cn, members, newset) ==
    [n \in DOMAIN cn |-> IF n \in Range(members) THEN newset ELSE cn[n]]

\* link that rebinds only the two named nodes, not every member of their sets
linkEndpointsOnly(cn, n1, n2) ==
    [n \in DOMAIN cn |-> IF n \in {n1, n2} THEN cn[n1] \o cn[n2] ELSE cn[n]]

\* Cnodes.link
link(cn, n1, n2) ==
    LET set1   == cn[n1]
        set2   == cn[n2]
        newset == set1 \o set2
        cn1    == Assign(cn, cn[n1], newset)
    IN  Assign(cn1, cn1[n2], newset)

-----------------------------------------------------------------------------
(* Graph and Graphs: lcapy/schematic.py                                    *)
(*                                                                         *)
(* A Graph is a dictionary from a node to the list of its (node, size)     *)
(* edges, kept as the sequence of its items [key, edges] in insertion      *)
(* order.  A node of a layout graph is a common-node tuple; the virtual    *)
(* root is stored under the key 'start'.                                   *)

\* the key 'start'
StartKey == <<"start">>

\* Graph.__init__: an empty dictionary with a name
NewGraph == <<>>

\* n in self
HasKey(g, k) == \E i \in DOMAIN g : g[i].key = k

\* self.keys(), as a set
Keys(g) == {g[i].key : i \in DOMAIN g}

\* self[n]
EdgesAt(g, k) == g[CHOOSE i \in DOMAIN g : g[i].key = k].edges

\* if n not in self: self[n] = []
EnsureKey(g, k) == IF HasKey(g, k) THEN g ELSE Append(g, [key |-> k, edges |-> <<>>])

\* self[n] = edges
SetEdges(g, k, edges) ==
    IF HasKey(g, k)
    THEN [i \in DOMAIN g |-> IF g[i].key = k THEN [key |-> k, edges |-> edges] ELSE g[i]]
    ELSE Append(g, [key |-> k, edges |-> edges])

\* self[n].append((to, size))
AppendEdge(g, k, to, size) == SetEdges(g, k, Append(EdgesAt(g, k), [to |-> to, size |-> size]))

\* Graph.add
GraphAdd(g, n1, n2, size) ==
    IF size = 0 THEN g
    ELSE The({IF size < 0 THEN AppendEdge(g2, n2, n1, -size)
                          ELSE AppendEdge(g2, n1, n2, size) :
              g2 \in {EnsureKey(EnsureKey(g, n1), n2)}})

\* Graphs.__init__
NewGraphs(name) ==
    [fwdname |-> "forward " \o name, revname |-> "reverse " \o name,
     fwd |-> NewGraph, rev |-> NewGraph]

\* Graphs.add handing the two nodes to the reverse graph in the same order
GraphsAddUnswapped(gs, n1, n2, size) ==
    [gs EXCEPT !.fwd = GraphAdd(gs.fwd, n1, n2, size),
               !.rev = GraphAdd(gs.rev, n1, n2, size)]

\* Graphs.add
GraphsAdd(gs, n1, n2, size) ==
    [gs EXCEPT !.fwd = GraphAdd(gs.fwd, n1, n2, size),
               !.rev = GraphAdd(gs.rev, n2, n1, size)]

\* the (node, 0) entries of the keys of fwd, in key order, whose list in g is empty
RECURSIVE Orphans(_, _, _)
Orphans(fwd, g, i) ==
    IF i > Len(fwd) THEN <<>>
    ELSE (IF EdgesAt(g, fwd[i].key) = <<>> THEN <<[to |-> fwd[i].key, size |-> 0]>> ELSE <<>>)
         \o Orphans(fwd, g, i + 1)

\* every node of fwd as a (node, 0) entry, in key order
RECURSIVE EveryNode(_, _)
EveryNode(fwd, i) ==
    IF i > Len(fwd) THEN <<>> ELSE <<[to |-> fwd[i].key, size |-> 0]>> \o EveryNode(fwd, i + 1)

\* add_start_nodes that roots every node, with or without edges
add_start_nodes_every_node(gs) ==
    [gs EXCEPT !.fwd = SetEdges(gs.fwd, StartKey, EveryNode(gs.fwd, 1)),
               !.rev = SetEdges(gs.rev, StartKey, EveryNode(gs.fwd, 1))]

\* add_start_nodes giving each graph the list made from the graph itself
add_start_nodes_swapped(gs) ==
    LET orphans  == Orphans(gs.fwd, gs.fwd, 1)
        rorphans == Orphans(gs.fwd, gs.rev, 1)
    IN  [gs EXCEPT !.fwd = SetEdges(gs.fwd, StartKey, orphans),
                   !.rev = SetEdges(gs.rev, StartKey, rorphans)]

\* Graphs.add_start_nodes
add_start_nodes(gs) ==
    LET orphans  == Orphans(gs.fwd, gs.fwd, 1)
        rorphans == Orphans(gs.fwd, gs.rev, 1)
    IN  [gs EXCEPT !.fwd = SetEdges(gs.fwd, StartKey, rorphans),
                   !.rev = SetEdges(gs.rev, StartKey, orphans)]

Max(a, b) == IF a >= b THEN a ELSE b

\* the loop body of get_longest that leaves the size of the edge out
RelaxNoSize(best, r, size) == Max(best, r)

\* best = max(best, get_longest(from_node) + size)
Relax(best, r, size) == Max(best, r + size)

\* the outcome of a get_longest call nested deeper than the interpreter allows:
\* RuntimeError 'maximum recursion depth exceeded'
Overflow == -1

\* get_longest(to_node), as the depth-th nested call.  memo holds a node only
\* once its loop has finished, so the calls around a cycle nest until the
\* interpreter's limit.  BestOver is the for loop from its i-th edge on.
RECURSIVE get_longest(_, _, _), BestOver(_, _, _, _, _)
get_longest(g, to_node, depth) ==
    IF depth > RecursionLimit THEN Overflow
    ELSE BestOver(g, EdgesAt(g, to_node), 1, 0, depth)

BestOver(g, edges, i, best, depth) ==
    IF i > Len(edges) THEN best
    ELSE The({IF r = Overflow THEN Overflow
              ELSE The({BestOver(g, edges, i + 1, better, depth) :
                        better \in {Relax(best, r, edges[i].size)}}) :
              r \in {get_longest(g, edges[i].to, depth + 1)}})

\* the largest of a non-empty set of numbers
MaxOf(S) == CHOOSE x \in S : \A y \in S : y <= x

\* longest_path has not been called
NotRun == [raised |-> "not called", message |-> "", length |-> 0, memo |-> <<>>]

\* the try block of longest_path without its except clause
PathsUncaught(g, name) ==
    The({IF \E k \in Keys(g) : memo[k] = Overflow
         THEN [raised |-> "RuntimeError", message |-> "maximum recursion depth exceeded",
               length |-> 0, memo |-> <<>>]
         ELSE [raised |-> "none", message |-> "",
               length |-> MaxOf({memo[k] : k \in Keys(g)}), memo |-> memo] :
         memo \in {[k \in Keys(g) |-> get_longest(g, k, 1)]}})

\* the try block of longest_path and its except clause
Paths(g, name) ==
    The({IF \E k \in Keys(g) : memo[k] = Overflow
         THEN [raised |-> "RuntimeError", message |-> "dodgy " \o name,
               length |-> 0, memo |-> <<>>]
         ELSE [raised |-> "none", message |-> "",
               length |-> MaxOf({memo[k] : k \in Keys(g)}), memo |-> memo] :
         memo \in {[k \in Keys(g) |-> get_longest(g, k, 1)]}})

\* longest_path with the test of the 'start' entry left out
longest_path_no_start_test(g, name) == Paths(g, name)

\* Graph.longest_path: (length, memo) or the exception raised.  The node
\* returned beside the length is not kept: no caller reads it.
longest_path(g, name) ==
    IF EdgesAt(g, StartKey) = <<>>
    THEN [raised |-> "ValueError", message |-> "Cannot find start node " \o name,
          length |-> 0, memo |-> <<>>]
    ELSE Paths(g, name)
-----------------------------------------------------------------------------
(* Node: lcapy/schematic.py *)

\* name.split('_'), for the node names of the netlists
Split(name) ==
    CASE name = "1_1" -> <<"1", "1">>
      [] name = "1_2" -> <<"1", "2">>
      [] name = "_2"  -> <<"", "2">>
      [] OTHER        -> <<name>>

\* parts[0] if name[0] != '_' else name
RootName(name) == IF Split(name)[1] = "" THEN name ELSE Split(name)[1]

\* Node.__init__
NewNode(name) ==
    [name |-> name, _port |-> FALSE, _count |-> 0,
     rootname |-> RootName(name), primary |-> Len(Split(name)) = 1, list |-> <<>>]

\* Node.append
NodeAppend(node, elt) ==
    [node EXCEPT !._port  = @ \/ elt.type = "P",
                 !.list   = Append(@, elt),
                 !._count = IF elt.type # "O" THEN @ + 1 ELSE @]

\* Node.count
count(node) == node._count

\* Node.port
port(node) == node._port \/ count(node) = 1

-----------------------------------------------------------------------------
(* Schematic: lcapy/schematic.py                                           *)
(*                                                                         *)
(* A dictionary of named objects (elements, nodes, snodes) is the sequence *)
(* of its values in insertion order, each carrying its key as .name.       *)

Names(d) == {d[i].name : i \in DOMAIN d}

\* d[name]
Named(d, name) == d[CHOOSE i \in DOMAIN d : d[i].name = name]

\* d[rec.name] = rec
Store(d, rec) ==
    IF rec.name \in Names(d)
    THEN [i \in DOMAIN d |-> IF d[i].name = rec.name THEN rec ELSE d[i]]
    ELSE Append(d, rec)

\* an attribute that is not set
Nothing == <<>>

\* Schematic.__init__ without a file name
NewSchematic ==
    [elements |-> <<>>, nodes |-> <<>>, snodes |-> <<>>, hints |-> FALSE,
     attrs |-> {}, _xcnodes |-> Nothing, _ycnodes |-> Nothing, _coords |-> Nothing,
     width |-> 0, height |-> 0]

\* hasattr(self, attr)
hasattr(sch, attr) == attr \in sch.attrs

\* _invalidate that leaves the coordinates in place
_invalidate_keeps_coords(sch) ==
    [sch EXCEPT !.attrs = @ \ {"_xcnodes", "_ycnodes"},
                !._xcnodes = Nothing, !._ycnodes = Nothing]

\* Schematic._invalidate
_invalidate(sch) ==
    [sch EXCEPT !.attrs = @ \ {"_xcnodes", "_ycnodes", "_coords"},
                !._xcnodes = Nothing, !._ycnodes = Nothing, !._coords = Nothing]

\* Schematic._node_add
_node_add(sch, node, elt) ==
    LET nodes1  == IF node \in Names(sch.nodes) THEN sch.nodes
                   ELSE Append(sch.nodes, NewNode(node))
        nodes2  == Store(nodes1, NodeAppend(Named(nodes1, node), elt))
        vnode   == Named(nodes2, node).rootname
        snodes1 == IF vnode \in Names(sch.snodes) THEN sch.snodes
                   ELSE Append(sch.snodes, [name |-> vnode, list |-> <<>>])
        shared  == Named(snodes1, vnode).list
        snodes2 == IF node \in Range(shared) THEN snodes1
                   ELSE Store(snodes1, [name |-> vnode, list |-> Append(shared, node)])
    IN  [sch EXCEPT !.nodes = nodes2, !.snodes = snodes2]

\* for node in nodes: self._node_add(node, cpt), from the i-th node on
RECURSIVE NodesAdd(_, _, _, _)
NodesAdd(sch, nodes, i, cpt) ==
    IF i > Len(nodes) THEN sch
    ELSE The({NodesAdd(sch1, nodes, i + 1, cpt) : sch1 \in {_node_add(sch, nodes[i], cpt)}})

\* the line of a netlist that holds no component
Blank == [name |-> "", type |-> "", nodes |-> <<>>, opts_string |-> ""]

\* Opts(opts_string): the 'dir' and 'size' entries, "" and 0 when there is none
Opts(opts_string) ==
    CASE opts_string = ""      -> [dir |-> "",      size |-> 0]
      [] opts_string = "right" -> [dir |-> "right", size |-> 0]
      [] opts_string = "left"  -> [dir |-> "left",  size |-> 0]
      [] opts_string = "up"    -> [dir |-> "up",    size |-> 0]
      [] opts_string = "down"  -> [dir |-> "down",  size |-> 0]
      [] opts_string = "left, size=2" -> [dir |-> "left", size |-> 2]

\* Schematic.parse: the component of a line, with the defaults of its drawing
\* hints filled in; id tells the objects of two parse calls apart
parse(line, id) ==
    LET opts == Opts(line.opts_string)
    IN  [name |-> line.name, type |-> line.type, nodes |-> line.nodes,
         opts_string |-> line.opts_string, id |-> id,
         dir  |-> IF opts.dir # "" THEN opts.dir
                  ELSE IF line.type \in {"O", "P"} THEN "down" ELSE "right",
         size |-> IF opts.size # 0 THEN opts.size ELSE 1]

\* the controlling nodes drawn too
DrawnNodesAll(cpt) == cpt.nodes

\* the nodes of a component that add gives a Node
DrawnNodes(cpt) == IF cpt.type \in {"E", "G"} THEN SubSeq(cpt.nodes, 1, 2) ELSE cpt.nodes

\* self.elements[cpt.name] = cpt that keeps the component already stored
StoreElementKeepFirst(elements, cpt) ==
    IF cpt.name \in Names(elements) THEN elements ELSE Append(elements, cpt)

\* self.elements[cpt.name] = cpt
StoreElement(elements, cpt) == Store(elements, cpt)

\* Schematic.add, for a line that is not blank
add(sch, cpt) ==
    LET sch1 == IF cpt.opts_string # "" THEN [sch EXCEPT !.hints = TRUE] ELSE sch
        sch2 == _invalidate(sch1)
    IN  The({IF cpt.type = "K" THEN sch3 ELSE NodesAdd(sch3, DrawnNodes(cpt), 1, cpt) :
             sch3 \in {[sch2 EXCEPT !.elements = StoreElement(@, cpt)]}})

\* the component parse gives for 'W_ n1 n2'
ImplicitWire(n1, n2) ==
    parse([name |-> "W_", type |-> "W", nodes |-> <<n1, n2>>, opts_string |-> ""], 0)

\* Schematic._make_wires1
_make_wires1(snode_list) ==
    [n \in 1..(Len(snode_list) - 1) |-> ImplicitWire(snode_list[n], snode_list[n + 1])]

\* wires.extend(self._make_wires1(snode_list)), from the m-th list of snodes on
RECURSIVE WiresFrom(_, _)
WiresFrom(snode_dir, m) ==
    IF m > Len(snode_dir) THEN <<>>
    ELSE _make_wires1(snode_dir[m].list) \o WiresFrom(snode_dir, m + 1)

\* _make_wires that adds each wire to the schematic
_make_wires_adding(sch) ==
    [wires |-> WiresFrom(sch.snodes, 1),
     sch   |-> IF WiresFrom(sch.snodes, 1) = <<>> THEN sch
               ELSE add(sch, WiresFrom(sch.snodes, 1)[1])]

\* Schematic._make_wires: the wires returned, and the schematic as the call leaves it
_make_wires(sch) == [wires |-> WiresFrom(sch.snodes, 1), sch |-> sch]

-----------------------------------------------------------------------------
(* Placement of the components: the link and place methods of the          *)
(* component classes, and Schematic._make_graphs                           *)

\* whether the drawing direction of a component lies along the axis
Along(cpt, axis) ==
    IF axis = "horizontal" THEN cpt.dir \in {"right", "left"} ELSE cpt.dir \in {"up", "down"}

\* elt.xlink(cnodes) / elt.ylink(cnodes): a component drawn across the axis
\* puts its two terminals on one coordinate
cptlink(cn, cpt, axis) ==
    IF Len(cpt.nodes) < 2 \/ Along(cpt, axis) THEN cn
    ELSE link(cn, cpt.nodes[1], cpt.nodes[2])

\* the size of a component as an edge: negative against the axis
Span(cpt) == IF cpt.dir \in {"right", "up"} THEN cpt.size ELSE -cpt.size

\* elt.xplace(graphs, cnodes) / elt.yplace(graphs, cnodes): a component drawn
\* along the axis is an edge of its size between the common nodes of its terminals
cptplace(gs, cn, cpt, axis) ==
    IF Len(cpt.nodes) < 2 \/ ~Along(cpt, axis) THEN gs
    ELSE GraphsAdd(gs, cn[cpt.nodes[1]], cn[cpt.nodes[2]], Span(cpt))

\* the first loop of _make_graphs over self.elements.values(), from the i-th on
RECURSIVE LinkAll(_, _, _, _)
LinkAll(cn, elements, i, axis) ==
    IF i > Len(elements) THEN cn
    ELSE The({LinkAll(cn1, elements, i + 1, axis) : cn1 \in {cptlink(cn, elements[i], axis)}})

\* the second loop of _make_graphs over self.elements.values(), from the i-th on
RECURSIVE PlaceAll(_, _, _, _, _)
PlaceAll(gs, cn, elements, i, axis) ==
    IF i > Len(elements) THEN gs
    ELSE The({PlaceAll(gs1, cn, elements, i + 1, axis) :
              gs1 \in {cptplace(gs, cn, elements[i], axis)}})

\* cnodes as _make_graphs has them after its first loop
CnodesOf(sch, axis) == LinkAll(CnodesInit(Names(sch.nodes)), sch.elements, 1, axis)

\* graphs as _make_graphs has them after add_start_nodes
GraphsOf(sch, axis) ==
    The({add_start_nodes(gs) :
         gs \in {PlaceAll(NewGraphs(axis), cn, sch.elements, 1, axis) :
                 cn \in {CnodesOf(sch, axis)}}})

\* 0.5 * s for a whole number s: the whole part and the number of halves left
Half(s) == <<s \div 2, s % 2>>

\* the position taken from the forward graph alone
CentreForwardOnly(pos, posr) == Half(pos + pos)

\* posa[node] = 0.5 * (pos[node] + posr[node])
Centre(pos, posr) == Half(pos + posr)

\* nothing returned
NoPositions == [n \in {} |-> Half(0)]

\* what _make_graphs gives when it raises
Raised(e) ==
    [raised |-> e.raised, message |-> e.message,
     posa |-> NoPositions, cnodes |-> NoCnodes, length |-> 0]

\* the last loop of _make_graphs and its return
Positions(cn, fwd, rev) ==
    IF \E n \in DOMAIN cn : cn[n] \notin DOMAIN fwd.memo
    THEN Raised([raised |-> "KeyError", message |-> "memo[gnode]"])
    ELSE [raised |-> "none", message |-> "",
          posa |-> [n \in DOMAIN cn |->
                      Centre(rev.length - fwd.memo[cn[n]], rev.memo[cn[n]])],
          cnodes |-> cn, length |-> rev.length]

\* the two longest_path calls of _make_graphs and what follows them
LongestPaths(cn, gs) ==
    The({IF fwd.raised # "none" THEN Raised(fwd)
         ELSE The({IF rev.raised # "none" THEN Raised(rev) ELSE Positions(cn, fwd, rev) :
                   rev \in {longest_path(gs.rev, gs.revname)}}) :
         fwd \in {longest_path(gs.fwd, gs.fwdname)}})

\* Schematic._make_graphs: (posa, cnodes, length) or the exception raised
_make_graphs(sch, axis) ==
    The({LongestPaths(cn, gs) : cn \in {CnodesOf(sch, axis)}, gs \in {GraphsOf(sch, axis)}})

\* Pos(x, y)
Pos(x, y) == <<x, y>>

\* the second half of _positions_calculate, h being what the first call returned
Vertical(sch, h) ==
    The({LET sch1 == [sch EXCEPT !.attrs = @ \cup {"_xcnodes", "width"},
                                 !._xcnodes = h.cnodes, !.width = h.length]
         IN  IF v.raised # "none"
             THEN [raised |-> v.raised, message |-> v.message, sch |-> sch1]
             ELSE [raised |-> "none", message |-> "",
                   sch |-> [sch1 EXCEPT
                              !.attrs = @ \cup {"_ycnodes", "height", "_coords"},
                              !._ycnodes = v.cnodes, !.height = v.length,
                              !._coords = [n \in DOMAIN h.posa |->
                                             Pos(h.posa[n], v.posa[n])]]] :
         v \in {_make_graphs(sch, "vertical")}})

\* Schematic._positions_calculate: the schematic it leaves, and the exception raised
_positions_calculate(sch) ==
    The({IF h.raised # "none"
         THEN [raised |-> h.raised, message |-> h.message, sch |-> sch]
         ELSE Vertical(sch, h) :
         h \in {_make_graphs(sch, "horizontal")}})

\* what a property returns: the cached attribute of the schematic r.sch, or
\* nothing when the computation raised
Returned(r, attr) ==
    [raised |-> r.raised, message |-> r.message, sch |-> r.sch,
     value |-> IF r.raised # "none" THEN Nothing
               ELSE IF attr = "_xcnodes" THEN r.sch._xcnodes
               ELSE IF attr = "_ycnodes" THEN r.sch._ycnodes
               ELSE r.sch._coords]

\* the properties xcnodes, ycnodes and coords: the schematic the read leaves,
\* the exception raised, and the value returned
Read(sch, attr) ==
    IF hasattr(sch, attr)
    THEN Returned([raised |-> "none", message |-> "", sch |-> sch], attr)
    ELSE The({Returned(r, attr) : r \in {_positions_calculate(sch)}})

-----------------------------------------------------------------------------
(* seqExpr: lcapy/seqexpr.py                                               *)
(*                                                                         *)
(* An expression is kept as the set of the indices at which it is not zero *)

\* self(n)
ValueAt(e, n) == IF n \in e THEN 1 ELSE 0

\* nvals = (-10, 10) when nvals is None
DefaultNvals == <<-10, 10>>

\* range(*nvals), as the sequence of its members
IndexRange(nvals) ==
    LET t == IF nvals = "None" THEN DefaultNvals ELSE nvals
    IN  [i \in 1..(t[2] - t[1]) |-> t[1] + i - 1]

\* for n in reversed(nvals): if self(n) != 0: n2 = n, from position i down
RECURSIVE FirstFrom(_, _, _, _)
FirstFrom(e, r, i, n2) ==
    IF i < 1 THEN n2
    ELSE FirstFrom(e, r, i - 1, IF ValueAt(e, r[i]) # 0 THEN r[i] ELSE n2)

\* seqExpr.first_index
first_index(e, nvals) ==
    LET r == IndexRange(nvals) IN FirstFrom(e, r, Len(r), r[Len(r)])

\* for n in nvals: if self(n) != 0: n1 = n, from position i up
RECURSIVE LastFrom(_, _, _, _)
LastFrom(e, r, i, n1) ==
    IF i > Len(r) THEN n1
    ELSE LastFrom(e, r, i + 1, IF ValueAt(e, r[i]) # 0 THEN r[i] ELSE n1)

\* seqExpr.last_index
last_index(e, nvals) ==
    LET r == IndexRange(nvals) IN LastFrom(e, r, 1, r[1])

\* seqExpr.seq: the indices arange(n1, n2 + 1) and the values at them
seq(e, nvals) ==
    LET n1 == first_index(e, nvals)
        n2 == last_index(e, nvals)
    IN  [n1 |-> n1, n2 |-> n2,
         nvals |-> [i \in 1..(n2 + 1 - n1) |-> n1 + i - 1],
         v     |-> [i \in 1..(n2 + 1 - n1) |-> ValueAt(e, n1 + i - 1)]]

-----------------------------------------------------------------------------
(* nExpr: lcapy/nexpr.py                                                   *)
(*                                                                         *)
(* An expression is kept as what is_dc, is_ac and is_causal find on it and *)
(* its dictionary of assumptions, a function from its keys to their values *)

\* no nExpr made
NoExpr == [is_dc |-> FALSE, is_ac |-> FALSE, is_causal |-> FALSE, assumptions |-> <<>>]

\* a.update(b) on a copy of a
Update(a, b) == [k \in DOMAIN a \cup DOMAIN b |-> IF k \in DOMAIN b THEN b[k] ELSE a[k]]

\* the keys infer_assumptions writes
Inferred == {"dc", "ac", "causal"}

\* nExpr.__init__
NewExpr(tests, assumptions) ==
    [is_dc |-> tests.is_dc, is_ac |-> tests.is_ac, is_causal |-> tests.is_causal,
     assumptions |-> Update(assumptions, [k \in {"real"} |-> TRUE])]

\* infer_assumptions that leaves the values already stored in place
infer_assumptions_keeping(x) ==
    LET cleared == Update([k \in Inferred |-> FALSE], x.assumptions)
    IN  [x EXCEPT !.assumptions =
            IF x.is_dc THEN Update(cleared, [k \in {"dc"} |-> TRUE])
            ELSE IF x.is_ac THEN Update(cleared, [k \in {"ac"} |-> TRUE])
            ELSE IF x.is_causal THEN Update(cleared, [k \in {"causal"} |-> TRUE])
            ELSE cleared]

\* nExpr.infer_assumptions
infer_assumptions(x) ==
    LET cleared == Update(x.assumptions, [k \in Inferred |-> FALSE])
    IN  [x EXCEPT !.assumptions =
            IF x.is_dc THEN Update(cleared, [k \in {"dc"} |-> TRUE])
            ELSE IF x.is_ac THEN Update(cleared, [k \in {"ac"} |-> TRUE])
            ELSE IF x.is_causal THEN Update(cleared, [k \in {"causal"} |-> TRUE])
            ELSE cleared]

\* nExpr.merge_assumptions: the dictionary returned, and the expression as the
\* call leaves it
merge_assumptions(x, kwargs) == [returned |-> Update(x.assumptions, kwargs), self |-> x]

-----------------------------------------------------------------------------
(* The parts of the state a specification leaves alone *)

NodalIdle ==
    /\ cct = <<>>
    /\ cctKind = "laplace"
    /\ na = NoAnalysis
    /\ na2 = NoAnalysis
    /\ eqCall = NotCalled

CnodesIdle ==
    /\ cnodes = NoCnodes
    /\ linked = <<>>

GraphsIdle ==
    /\ graphs = NewGraphs("")
    /\ fwdPath = NotRun
    /\ revPath = NotRun

\* no call made since the last one that changed the schematic
NoCall == [op |-> "none", axis |-> "", raised |-> "none", message |-> "", value |-> Nothing]

ExprIdle ==
    /\ sexpr = {}
    /\ nexpr = NoExpr

SchIdle ==
    /\ schem = NewSchematic
    /\ lastCall = NoCall
    /\ addedLog = <<>>
    /\ printed = <<>>

-----------------------------------------------------------------------------
(* Specification of the nodal analysis *)

Init ==
    /\ cct = <<>>
    /\ cctKind \in Kinds
    /\ na = NoAnalysis
    /\ na2 = NoAnalysis
    /\ eqCall = NotCalled
    /\ CnodesIdle
    /\ GraphsIdle
    /\ SchIdle
    /\ ExprIdle

\* Circuit.add: one more netlist line
Add ==
    /\ na.state = "none"
    /\ Len(cct) < MaxCpts
    /\ \E s \in CptShapes :
          cct' = Append(cct, [name |-> Len(cct) + 1, type |-> s.type, nodenames |-> s.nodenames])
    /\ UNCHANGED <<cctKind, na, na2, eqCall, cnodesVars, exprVars, graphVars, schVars>>

\* na = NodalAnalysis(cct)
Construct ==
    /\ na.state = "none"
    /\ \E order \in {"ascending", "descending"} : na' = NewAnalysis(cct, cctKind, order)
    /\ UNCHANGED <<cct, cctKind, na2, eqCall, cnodesVars, exprVars, graphVars, schVars>>

\* na.equations()
Equations ==
    /\ na.state = "constructed"
    /\ eqCall = NotCalled
    /\ eqCall' = equations(na)
    /\ UNCHANGED <<cct, cctKind, na, na2, cnodesVars, exprVars, graphVars, schVars>>

Next == Add \/ Construct \/ Equations

Spec == Init /\ [][Next]_vars

-----------------------------------------------------------------------------
(* Specification of two analyses of one netlist *)

\* na2 = NodalAnalysis(cct), after na
ConstructAgain ==
    /\ na.state # "none"
    /\ na2.state = "none"
    /\ \E order \in {"ascending", "descending"} : na2' = NewAnalysis(cct, cctKind, order)
    /\ UNCHANGED <<cct, cctKind, na, eqCall, cnodesVars, exprVars, graphVars, schVars>>

NextTwice == Add \/ Construct \/ ConstructAgain

\* 'time' and 'super' circuits give the same analysis; one of them is kept
InitTwice ==
    /\ cct = <<>>
    /\ cctKind \in Kinds \ {"time"}
    /\ na = NoAnalysis
    /\ na2 = NoAnalysis
    /\ eqCall = NotCalled
    /\ CnodesIdle
    /\ GraphsIdle
    /\ SchIdle
    /\ ExprIdle

SpecTwice == InitTwice /\ [][NextTwice]_vars

-----------------------------------------------------------------------------
(* Specification of the common-node sets *)

InitCnodes ==
    /\ NodalIdle
    /\ GraphsIdle
    /\ SchIdle
    /\ ExprIdle
    /\ cnodes = CnodesInit(SchNodes)
    /\ linked = <<>>

Link ==
    /\ Len(linked) < MaxLinks
    /\ \E n1 \in SchNodes, n2 \in SchNodes :
          /\ cnodes' = link(cnodes, n1, n2)
          /\ linked' = Append(linked, <<n1, n2>>)
    /\ UNCHANGED <<nodalVars, exprVars, graphVars, schVars>>

NextCnodes == Link

SpecCnodes == InitCnodes /\ [][NextCnodes]_vars

-----------------------------------------------------------------------------
(* Specification of the layout graphs: edges are added to a pair of        *)
(* graphs, the start entries are made, and the longest paths are computed  *)

\* the number of edges a graph stores
RECURSIVE EdgeCount(_, _)
EdgeCount(g, i) == IF i > Len(g) THEN 0 ELSE Len(g[i].edges) + EdgeCount(g, i + 1)

Rooted(gs) == HasKey(gs.fwd, StartKey)

InitGraphs ==
    /\ NodalIdle
    /\ CnodesIdle
    /\ SchIdle
    /\ ExprIdle
    /\ \E name \in {"horizontal", "vertical"} : graphs = NewGraphs(name)
    /\ fwdPath = NotRun
    /\ revPath = NotRun

\* graphs.add(n1, n2, size)
GAdd ==
    /\ ~Rooted(graphs)
    /\ EdgeCount(graphs.fwd, 1) < MaxEdges
    /\ \E n1 \in GNodes, n2 \in GNodes, size \in Sizes :
          graphs' = GraphsAdd(graphs, n1, n2, size)
    /\ UNCHANGED <<nodalVars, cnodesVars, exprVars, schVars, fwdPath, revPath>>

\* graphs.add_start_nodes()
GAddStartNodes ==
    /\ ~Rooted(graphs)
    /\ graphs' = add_start_nodes(graphs)
    /\ UNCHANGED <<nodalVars, cnodesVars, exprVars, schVars, fwdPath, revPath>>

\* graphs.fwd.longest_path()
GLongestFwd ==
    /\ Rooted(graphs)
    /\ fwdPath = NotRun
    /\ fwdPath' = longest_path(graphs.fwd, graphs.fwdname)
    /\ UNCHANGED <<nodalVars, cnodesVars, exprVars, schVars, graphs, revPath>>

\* graphs.rev.longest_path()
GLongestRev ==
    /\ Rooted(graphs)
    /\ revPath = NotRun
    /\ revPath' = longest_path(graphs.rev, graphs.revname)
    /\ UNCHANGED <<nodalVars, cnodesVars, exprVars, schVars, graphs, fwdPath>>

NextGraphs == GAdd \/ GAddStartNodes \/ GLongestFwd \/ GLongestRev

SpecGraphs == InitGraphs /\ [][NextGraphs]_vars

-----------------------------------------------------------------------------
(* Specification of a schematic: lines are added, the cached coordinates   *)
(* and common nodes are read, and _make_graphs is called for an axis       *)

\* the lines of a netlist that is drawn
DrawnLines ==
    {[name |-> "R1", type |-> "R", nodes |-> <<"1", "2">>, opts_string |-> ""],
     [name |-> "R2", type |-> "R", nodes |-> <<"2", "3">>, opts_string |-> ""],
     [name |-> "R2", type |-> "R", nodes |-> <<"2", "3">>, opts_string |-> "down"],
     [name |-> "R3", type |-> "R", nodes |-> <<"3", "4">>, opts_string |-> ""],
     [name |-> "R3", type |-> "R", nodes |-> <<"3", "4">>, opts_string |-> "down"],
     [name |-> "R3", type |-> "R", nodes |-> <<"4", "1">>, opts_string |-> "left, size=2"],
     Blank}

\* the lines of a netlist whose nodes are looked at
NodeLines ==
    {[name |-> "R1", type |-> "R", nodes |-> <<"1", "2">>, opts_string |-> ""],
     [name |-> "R1", type |-> "R", nodes |-> <<"2", "3">>, opts_string |-> "down"],
     [name |-> "R2", type |-> "R", nodes |-> <<"1", "1">>, opts_string |-> ""],
     [name |-> "W1", type |-> "W", nodes |-> <<"2", "3">>, opts_string |-> "up"],
     [name |-> "E1", type |-> "E", nodes |-> <<"1", "2", "3", "4">>, opts_string |-> ""],
     [name |-> "G1", type |-> "G", nodes |-> <<"3", "3", "1", "2">>, opts_string |-> ""],
     [name |-> "P1", type |-> "P", nodes |-> <<"1", "2">>, opts_string |-> ""],
     [name |-> "O1", type |-> "O", nodes |-> <<"2", "3">>, opts_string |-> ""],
     [name |-> "K1", type |-> "K", nodes |-> <<>>, opts_string |-> ""],
     Blank}

InitSch ==
    /\ NodalIdle
    /\ CnodesIdle
    /\ GraphsIdle
    /\ SchIdle
    /\ ExprIdle

\* print('Overriding component %s' % cpt.name)
Diagnostic(sch1, cpt) ==
    IF cpt.name \in Names(sch1.elements) THEN <<"Overriding component " \o cpt.name>> ELSE <<>>

\* sch.add(line), for a line of lines
AddFrom(lines) ==
    /\ Len(addedLog) < MaxAdds
    /\ \E line \in lines :
          IF line = Blank
          THEN /\ lastCall' = [NoCall EXCEPT !.op = "add", !.value = <<FALSE>>]
               /\ UNCHANGED <<schem, addedLog, printed>>
          ELSE LET cpt == parse(line, Len(addedLog) + 1)
               IN  /\ schem' = add(schem, cpt)
                   /\ printed' = printed \o Diagnostic(schem, cpt)
                   /\ addedLog' = Append(addedLog, cpt)
                   /\ lastCall' = [NoCall EXCEPT !.op = "add", !.value = <<TRUE>>]
    /\ UNCHANGED <<nodalVars, cnodesVars, exprVars, graphVars>>

\* sch.coords, sch.xcnodes, sch.ycnodes
SRead(attr) ==
    /\ \E r \in {Read(schem, attr)} :
           /\ schem' = r.sch
           /\ lastCall' = [op |-> attr, axis |-> "", raised |-> r.raised,
                           message |-> r.message, value |-> r.value]
    /\ UNCHANGED <<nodalVars, cnodesVars, exprVars, graphVars, addedLog, printed>>

SReadCoords == SRead("_coords")

SReadXcnodes == SRead("_xcnodes")

SReadYcnodes == SRead("_ycnodes")

\* sch._make_graphs(axis)
SMakeGraphs ==
    /\ \E axis \in {"horizontal", "vertical"} :
          \E r \in {_make_graphs(schem, axis)} :
              lastCall' = [op |-> "_make_graphs", axis |-> axis, raised |-> r.raised,
                           message |-> r.message,
                           value |-> [posa |-> r.posa, cnodes |-> r.cnodes, length |-> r.length]]
    /\ UNCHANGED <<nodalVars, cnodesVars, exprVars, graphVars, schem, addedLog, printed>>

SAdd == AddFrom(DrawnLines)

NextSch == SAdd \/ SReadCoords \/ SReadXcnodes \/ SReadYcnodes \/ SMakeGraphs

SpecSch == InitSch /\ [][NextSch]_vars

-----------------------------------------------------------------------------
(* Specification of the nodes of a schematic: lines are added *)

NAdd == AddFrom(NodeLines)

NextNodes == NAdd

SpecNodes == InitSch /\ [][NextNodes]_vars

-----------------------------------------------------------------------------
(* Properties of the nodal analysis *)

Constructed == na.state = "constructed"

EqNodes(a) == [i \in 1..Len(a.equations) |-> a.equations[i].node]

\* the nodes that get an equation: neither the reference node nor a dummy node
ProperNodes == {n \in GraphNodeSet(cct) : n # "0" /\ n \notin {"*1"}}

VoltageSourcesAt(node) == SelectSeq(connected(cct, node), LAMBDA e : e.type = "V")

Terms(e) == {e.lhs[i] : i \in 1..Len(e.lhs)} \cup {e.rhs[i] : i \in 1..Len(e.rhs)}

\* C1: a constructed analysis holds exactly one equation entry for every graph
\* node that is neither '0' nor a dummy node, and none for '0' or a dummy node.
C1_OneEquationPerProperNode ==
    Constructed =>
        /\ Range(EqNodes(na)) = ProperNodes
        /\ Len(na.equations) = Cardinality(ProperNodes)

\* V1 1 0 / R2 1 2 / R3 2 0 gives the key set {'1', '2'}; so does a graph with
\* a dummy node
C1_Witness ==
    /\ Constructed
    /\ "*1" \in GraphNodeSet(cct)
    /\ "0" \in GraphNodeSet(cct)
    /\ Range(EqNodes(na)) = {"1", "2"}

\* C2: the equation of a node with an incident voltage source is a source's
\* pinning constraint and holds no branch-current term, whatever else is incident.
C2_SourcePrecedence ==
    Constructed =>
        \A i \in 1..Len(na.equations) :
            LET e   == na.equations[i]
                src == VoltageSourcesAt(e.node)
            IN  src # <<>> =>
                    /\ \A t \in Terms(e) : t.fn # "i_equation" /\ t.fn # "Current0"
                    /\ Len(e.rhs) = 2
                    /\ e.rhs[2].fn = "v_equation"
                    /\ \E k \in 1..Len(src) : src[k].name = e.rhs[2].elt

\* one voltage source and two other components at the same node
C2_Witness ==
    /\ Constructed
    /\ \E i \in 1..Len(na.equations) :
           /\ Len(VoltageSourcesAt(na.equations[i].node)) = 1
           /\ Len(connected(cct, na.equations[i].node)) = 3

FirstSource(node) == VoltageSourcesAt(node)[1]

OtherTerminal(elt, node) ==
    IF elt.nodenames[1] = node THEN elt.nodenames[2] ELSE elt.nodenames[1]

SourceTerm(elt) == Term("v_equation", elt.name, "", "", na.kind)

\* C3 as stated: the equation under key N reads
\* N's voltage = other terminal's voltage + source value, whichever terminal N is.
C3_Original ==
    Constructed =>
        \A i \in 1..Len(na.equations) :
            LET e   == na.equations[i]
                src == VoltageSourcesAt(e.node)
            IN  src # <<>> =>
                    /\ e.lhs = <<YdictAt(na.ydict, e.node)>>
                    /\ e.rhs = <<YdictAt(na.ydict, OtherTerminal(src[1], e.node)),
                                 SourceTerm(src[1])>>

\* C3 (amended): the equation under key N reads
\* first terminal's voltage = second terminal's voltage + source value,
\* in the source's own terminal order, whichever terminal N is.
C3_PinInTerminalOrder ==
    Constructed =>
        \A i \in 1..Len(na.equations) :
            LET e   == na.equations[i]
                src == VoltageSourcesAt(e.node)
            IN  src # <<>> =>
                    /\ e.lhs = <<YdictAt(na.ydict, src[1].nodenames[1])>>
                    /\ e.rhs = <<YdictAt(na.ydict, src[1].nodenames[2]), SourceTerm(src[1])>>

\* a pinned node that is the second terminal of its source
C3_Witness ==
    /\ Constructed
    /\ \E i \in 1..Len(na.equations) :
           /\ VoltageSourcesAt(na.equations[i].node) # <<>>
           /\ FirstSource(na.equations[i].node).nodenames[2] = na.equations[i].node

\* C4: the equation of a node without voltage source is (sum, 0); the sum has
\* one term per entry of the incidence list, in order, each the component's
\* i_equation of (this node's voltage - the other terminal's voltage).
C4_KclSum ==
    Constructed =>
        \A i \in 1..Len(na.equations) :
            LET e   == na.equations[i]
                inc == connected(cct, e.node)
            IN  VoltageSourcesAt(e.node) = <<>> =>
                    /\ e.rhs = <<Const0>>
                    /\ Len(e.lhs) = Len(inc) + 1
                    /\ e.lhs[1] = Term("Current0", 0, "", "", na.kind)
                    /\ \A k \in 1..Len(inc) :
                           e.lhs[k + 1] = Term("i_equation", inc[k].name, e.node,
                                               OtherTerminal(inc[k], e.node), na.kind)

\* a KCL node with two components, one of them with the node as second terminal
C4_Witness ==
    /\ Constructed
    /\ \E i \in 1..Len(na.equations) :
           LET inc == connected(cct, na.equations[i].node)
           IN  /\ VoltageSourcesAt(na.equations[i].node) = <<>>
               /\ Len(inc) >= 2
               /\ \E k \in 1..Len(inc) : inc[k].nodenames[2] = na.equations[i].node
               /\ \E k \in 1..Len(inc) : inc[k].nodenames[1] = na.equations[i].node

\* a component the KCL loop rejects at a node
BadAt(elt, node) ==
    \/ Len(elt.nodenames) < 2
    \/ /\ Len(elt.nodenames) >= 2
       /\ elt.nodenames[1] # node
       /\ elt.nodenames[2] # node

BadNames ==
    UNION {{connected(cct, n)[k].name :
               k \in {j \in 1..Len(connected(cct, n)) : BadAt(connected(cct, n)[j], n)}} :
           n \in ProperNodes}

\* C5 as stated: a malformed component at a processed node always makes the
\* construction fail with a ValueError naming a malformed component, also when
\* the node has a voltage source.
C5_Original ==
    (na.state # "none" /\ BadNames # {}) =>
        /\ na.state = "failed"
        /\ na.error.exc = "ValueError"
        /\ na.error.elt \in BadNames

\* C6: equations() raises ValueError whenever the kind is 'time', also for a
\* circuit of kind 'super', and _analyse is not entered.
C6_TimeDomainRefused ==
    (eqCall # NotCalled /\ cctKind \in {"time", "super"}) =>
        /\ eqCall.raised = "ValueError"
        /\ ~eqCall.analysed

\* equations() was called on the analysis of a 'super' circuit
C6_Witness ==
    /\ eqCall # NotCalled
    /\ cctKind = "super"
    /\ Len(na.equations) = 2

\* C7 as stated: for every other kind equations() completes without raising
\* and returns the matrix form.
C7_Original ==
    (eqCall # NotCalled /\ cctKind \notin {"time", "super"}) =>
        eqCall.raised = "none"

YNodes(a) == [i \in 1..Len(a.y) |-> a.y[i].key]

\* C8 as stated: y lists the proper nodes in ascending order and the i-th
\* stored equation is keyed by the node of the i-th unknown.
C8_Original ==
    Constructed =>
        /\ YNodes(na) = Sorted(ProperNodes)
        /\ EqNodes(na) = YNodes(na)

EqDict(a) == {a.equations[i] : i \in 1..Len(a.equations)}

\* C9: two analyses of the same netlist have the same outcome: both fail, or
\* both hold the same node keys with the same (lhs, rhs) under each key, and
\* the same unknowns.
C9_SameEquations ==
    (na.state # "none" /\ na2.state # "none") =>
        /\ na.state = na2.state
        /\ Range(EqNodes(na)) = Range(EqNodes(na2))
        /\ EqDict(na) = EqDict(na2)
        /\ na.ydict = na2.ydict

\* two analyses built over different node orders, each with two equations
C9_Witness ==
    /\ na.state = "constructed"
    /\ na2.state = "constructed"
    /\ na.order # na2.order
    /\ Len(na.equations) = 2
    /\ Len(na2.equations) = 2

-----------------------------------------------------------------------------
(* Properties of the common-node sets *)

Members(cn, n) == Range(cn[n])

LinkedPairs == {linked[i] : i \in 1..Len(linked)}

\* one round of closing a relation under composition
Step(R) ==
    R \cup {pq \in SchNodes \X SchNodes :
               \E b \in SchNodes : <<pq[1], b>> \in R /\ <<b, pq[2]>> \in R}

RECURSIVE Closure(_)
Closure(R) == IF Step(R) = R THEN R ELSE Closure(Step(R))

\* the reflexive-symmetric-transitive closure of the linked pairs
LinkClosure ==
    Closure(LinkedPairs \cup {<<p[2], p[1]>> : p \in LinkedPairs}
                        \cup {<<n, n>> : n \in SchNodes})

Partition(cn) == {Members(cn, n) : n \in DOMAIN cn}

\* C10: after any sequence of link calls every node is in its own set, every
\* member of a node's set maps to that same tuple, two nodes share a set
\* exactly when the closure of the linked pairs relates them, link(a,b) then
\* link(b,c) joins a, b and c, and link(a,b) and link(b,a) give one partition.
C10_LinkIsEquivalence ==
    /\ \A n \in DOMAIN cnodes : n \in Members(cnodes, n)
    /\ \A n \in DOMAIN cnodes : \A m \in Members(cnodes, n) : cnodes[m] = cnodes[n]
    /\ \A a \in DOMAIN cnodes, b \in DOMAIN cnodes :
           b \in Members(cnodes, a) <=> <<a, b>> \in LinkClosure
    /\ \A a \in DOMAIN cnodes, b \in DOMAIN cnodes, c \in DOMAIN cnodes :
           {a, b, c} \subseteq Members(link(link(cnodes, a, b), b, c), a)
    /\ \A a \in DOMAIN cnodes, b \in DOMAIN cnodes :
           Partition(link(cnodes, a, b)) = Partition(link(cnodes, b, a))

\* link(a, b) then link(b, c) has been called
C10_Witness ==
    /\ Len(linked) >= 2
    /\ linked[1] = <<"a", "b">>
    /\ linked[2] = <<"b", "c">>
    /\ Members(cnodes, "a") = {"a", "b", "c"}

-----------------------------------------------------------------------------
(* Properties of the layout graphs *)

\* the nodes one stored edge away from k
Targets(g, k) == {EdgesAt(g, k)[i].to : i \in DOMAIN EdgesAt(g, k)}

\* the nodes at most n stored edges, and at least one, away from the nodes of S
RECURSIVE Within(_, _, _)
Within(g, S, n) ==
    IF n = 0 THEN {}
    ELSE LET T == UNION {Targets(g, k) : k \in S} IN T \cup Within(g, T, n - 1)

\* no node is reached from itself
Acyclic(g) == \A k \in Keys(g) : k \notin Within(g, {k}, Len(g))

\* the total weights of the edge paths of at most n edges that leave k
RECURSIVE PathWeights(_, _, _)
PathWeights(g, k, n) ==
    IF n = 0 THEN {0}
    ELSE {0} \cup UNION {{EdgesAt(g, k)[i].size + w : w \in PathWeights(g, EdgesAt(g, k)[i].to, n - 1)} :
                          i \in DOMAIN EdgesAt(g, k)}

\* the call on the graph has been made
Called(path) == path.raised # "not called"

\* path is the (length, memo) the heaviest edge paths of g give
HeaviestPaths(path, g) ==
    /\ path.raised = "none"
    /\ DOMAIN path.memo = Keys(g)
    /\ \A k \in Keys(g) :
          /\ path.memo[k] = MaxOf(PathWeights(g, k, Len(g)))
          /\ EdgesAt(g, k) = <<>> => path.memo[k] = 0
    /\ \A k \in Keys(g) : path.memo[k] <= path.length
    /\ path.length = path.memo[StartKey]

\* C11: on an acyclic graph whose 'start' entry is not empty, longest_path
\* returns a memo that gives each node the largest total weight of the edge
\* paths stored for it (0 for a node without edges), and a length that is the
\* largest memo value, which is the value at 'start'.
C11_LongestPath ==
    /\ (Called(fwdPath) /\ Acyclic(graphs.fwd) /\ EdgesAt(graphs.fwd, StartKey) # <<>>)
          => HeaviestPaths(fwdPath, graphs.fwd)
    /\ (Called(revPath) /\ Acyclic(graphs.rev) /\ EdgesAt(graphs.rev, StartKey) # <<>>)
          => HeaviestPaths(revPath, graphs.rev)

\* a node with three edge paths of different weights, the heaviest of two edges
C11_Witness ==
    /\ fwdPath.raised = "none"
    /\ Acyclic(graphs.fwd)
    /\ \E k \in GNodes \cap Keys(graphs.fwd) :
          /\ Cardinality(PathWeights(graphs.fwd, k, Len(graphs.fwd))) >= 3
          /\ fwdPath.memo[k] = 3
          /\ Len(EdgesAt(graphs.fwd, k)) = 2

\* two components, each putting one node before the other, and no other edge
Contradiction(gs) ==
    \E x \in GNodes, y \in GNodes :
        /\ x # y
        /\ Keys(gs.fwd) \ {StartKey} = {x, y}
        /\ Targets(gs.fwd, x) = {y}
        /\ Targets(gs.fwd, y) = {x}
        /\ Len(EdgesAt(gs.fwd, x)) = 1
        /\ Len(EdgesAt(gs.fwd, y)) = 1

\* the call raised the error that calls the graph dodgy
Dodgy(path, name) ==
    /\ path.raised = "RuntimeError"
    /\ path.message = "dodgy " \o name
    /\ path.memo = <<>>
    /\ path.length = 0

\* the call raised the error that no start node is found, naming the graph
NoStartNode(path, name) ==
    /\ path.raised = "ValueError"
    /\ path.message = "Cannot find start node " \o name
    /\ path.memo = <<>>
    /\ path.length = 0

\* C13 as stated: the graphs of two components that each put one node before
\* the other make the longest-path computation raise the 'dodgy' error.
C13_Original ==
    (Contradiction(graphs) /\ Called(fwdPath)) => Dodgy(fwdPath, graphs.fwdname)

\* C13: the graphs of two components that each put one node before the other,
\* with no other edge, leave no node without an edge, so both 'start' entries
\* are empty and the longest-path computation raises the error that no start
\* node is found; it returns no length and no memo.
C13_ContradictionHasNoStart ==
    Contradiction(graphs) =>
        /\ Rooted(graphs) => /\ EdgesAt(graphs.fwd, StartKey) = <<>>
                             /\ EdgesAt(graphs.rev, StartKey) = <<>>
        /\ Called(fwdPath) => NoStartNode(fwdPath, graphs.fwdname)
        /\ Called(revPath) => NoStartNode(revPath, graphs.revname)

C13_Witness ==
    /\ Contradiction(graphs)
    /\ Called(fwdPath)
    /\ Called(revPath)

\* C14: on a graph with a directed cycle and a non-empty 'start' entry,
\* longest_path ends by raising the RuntimeError that calls the graph dodgy:
\* the nesting of get_longest is bounded, and no length or memo is returned.
C14_CycleIsDodgy ==
    /\ (Called(fwdPath) /\ ~Acyclic(graphs.fwd) /\ EdgesAt(graphs.fwd, StartKey) # <<>>)
          => Dodgy(fwdPath, graphs.fwdname)
    /\ (Called(revPath) /\ ~Acyclic(graphs.rev) /\ EdgesAt(graphs.rev, StartKey) # <<>>)
          => Dodgy(revPath, graphs.revname)

\* a cycle of two nodes behind a node that is a start node
C14_Witness ==
    /\ Called(fwdPath)
    /\ EdgesAt(graphs.fwd, StartKey) # <<>>
    /\ \E x \in GNodes \cap Keys(graphs.fwd), y \in GNodes \cap Keys(graphs.fwd) :
          /\ x # y
          /\ x \in Targets(graphs.fwd, y)
          /\ y \in Targets(graphs.fwd, x)

-----------------------------------------------------------------------------
(* Properties of the placement *)

\* the heaviest edge path that leaves the node k of g
Heaviest(g, k) == MaxOf(PathWeights(g, k, Len(g)))

\* _make_graphs was the last call, for the schematic as it is, and returned
Made(axis) ==
    /\ lastCall.op = "_make_graphs"
    /\ lastCall.axis = axis
    /\ lastCall.raised = "none"

\* three components of size 1, drawn to the right, each from the second node of
\* the one before, over four nodes
SeriesOfThree(elements) ==
    /\ Len(elements) = 3
    /\ \A i \in 1..3 : elements[i].dir = "right" /\ elements[i].size = 1
    /\ elements[1].nodes[2] = elements[2].nodes[1]
    /\ elements[2].nodes[2] = elements[3].nodes[1]
    /\ Cardinality({elements[i].nodes[j] : i \in 1..3, j \in 1..2}) = 4

\* C12: the coordinate _make_graphs gives a node is half the sum of the total
\* length less the longest path from the node to the far end, and the longest
\* path from the near end to the node; three components of size 1 in series in
\* one direction put their four nodes at 0, 1, 2, 3 and the length is 3.
C12_CentredCoordinate ==
    \A axis \in {"horizontal", "vertical"} :
        Made(axis) =>
            LET gs == GraphsOf(schem, axis)
                cn == CnodesOf(schem, axis)
                total == Heaviest(gs.fwd, StartKey)
            IN  /\ DOMAIN lastCall.value.posa = Names(schem.nodes)
                /\ lastCall.value.length = total
                /\ \A n \in Names(schem.nodes) :
                      lastCall.value.posa[n] =
                          Half((total - Heaviest(gs.fwd, cn[n])) + Heaviest(gs.rev, cn[n]))
                /\ (axis = "horizontal" /\ SeriesOfThree(schem.elements)) =>
                      /\ lastCall.value.length = 3
                      /\ lastCall.value.posa[schem.elements[1].nodes[1]] = <<0, 0>>
                      /\ lastCall.value.posa[schem.elements[1].nodes[2]] = <<1, 0>>
                      /\ lastCall.value.posa[schem.elements[2].nodes[2]] = <<2, 0>>
                      /\ lastCall.value.posa[schem.elements[3].nodes[2]] = <<3, 0>>

\* the three components in series have been placed
C12_Witness ==
    /\ Made("horizontal")
    /\ SeriesOfThree(schem.elements)
    /\ lastCall.value.length = 3

\* the graphs of an axis have a forward graph whose 'start' entry is empty
NoStart(axis) == EdgesAt(GraphsOf(schem, axis).fwd, StartKey) = <<>>

\* the last call raised the error that no start node is found in the forward graph of the axis
RaisedNoStart(axis) ==
    /\ lastCall.raised = "ValueError"
    /\ lastCall.message = "Cannot find start node forward " \o axis

C16_CacheIsFresh ==
    /\ hasattr(schem, "_xcnodes") => schem._xcnodes = CnodesOf(schem, "horizontal")
    /\ hasattr(schem, "_ycnodes") => schem._ycnodes = CnodesOf(schem, "vertical")
    /\ hasattr(schem, "_coords") =>
          LET r == _positions_calculate(_invalidate(schem))
          IN  r.raised = "none" /\ r.sch._coords = schem._coords
    /\ (lastCall.op = "add" /\ lastCall.value = <<TRUE>>)
          => schem.attrs \cap {"_xcnodes", "_ycnodes", "_coords"} = {}

\* a component was added after the coordinates had been computed: the height
\* found then is still there, the cached values are not
C16_Witness ==
    /\ lastCall.op = "add"
    /\ lastCall.value = <<TRUE>>
    /\ "height" \in schem.attrs
    /\ Len(schem.elements) = 3
    /\ ~hasattr(schem, "_coords")

\* C18 as stated: when the layout graphs are acyclic, reading the coordinates
\* gives a pair for every node of the schematic.
C18_Original ==
    (/\ lastCall.op = "_coords"
     /\ Len(schem.elements) >= 1
     /\ Acyclic(GraphsOf(schem, "horizontal").fwd)
     /\ Acyclic(GraphsOf(schem, "vertical").fwd))
        => /\ lastCall.raised = "none"
           /\ DOMAIN lastCall.value = Names(schem.nodes)

-----------------------------------------------------------------------------
(* Properties of the elements and nodes of a schematic *)

\* the component added last under the name
LastAdded(name) ==
    addedLog[CHOOSE i \in DOMAIN addedLog :
                /\ addedLog[i].name = name
                /\ \A j \in DOMAIN addedLog : j > i => addedLog[j].name # name]

\* the diagnostics of the adds from the i-th on: one for each add under a name
\* already added
RECURSIVE Overridings(_)
Overridings(i) ==
    IF i > Len(addedLog) THEN <<>>
    ELSE (IF \E j \in 1..(i - 1) : addedLog[j].name = addedLog[i].name
          THEN <<"Overriding component " \o addedLog[i].name>> ELSE <<>>)
         \o Overridings(i + 1)

\* C17: an add under a name already held prints a diagnostic and replaces the
\* component: elements holds one entry for each name added, and it is the
\* component added last under the name.
C17_LastWriteWins ==
    /\ Names(schem.elements) = {addedLog[i].name : i \in DOMAIN addedLog}
    /\ Len(schem.elements) = Cardinality(Names(schem.elements))
    /\ \A i \in DOMAIN schem.elements :
          schem.elements[i] = LastAdded(schem.elements[i].name)
    /\ printed = Overridings(1)

\* R1 has been added twice, between different nodes
C17_Witness ==
    /\ Len(printed) = 1
    /\ Len(addedLog) = 3
    /\ addedLog[1].name = "R1"
    /\ addedLog[3].name = "R1"
    /\ Named(schem.elements, "R1").nodes # addedLog[1].nodes

\* the terminals of a component
Terminals(cpt) == Range(cpt.nodes)

\* the terminals of a component that are drawn: none of a 'K' component, the
\* first two of a controlled source
Drawn(cpt) ==
    IF cpt.type = "K" THEN {}
    ELSE IF cpt.type \in {"E", "G"} THEN {cpt.nodes[1], cpt.nodes[2]}
    ELSE Terminals(cpt)

\* C19 as stated: every terminal of every component of elements, the four of a
\* controlled source included, is the name of a Node of the schematic.
C19_Original ==
    \A i \in DOMAIN schem.elements :
        Terminals(schem.elements[i]) \subseteq Names(schem.nodes)

\* C19: every drawn terminal of every component of elements is the name of one
\* Node of the schematic, which holds the component in its list; the nodes are
\* the drawn terminals of the components added and no other name, so a
\* controlling terminal of an 'E' or 'G' component has a Node only when it is
\* a drawn terminal of some component.
C19_DrawnTerminalsResolve ==
    /\ \A i \in DOMAIN schem.elements :
          \A n \in Drawn(schem.elements[i]) :
              /\ n \in Names(schem.nodes)
              /\ schem.elements[i] \in Range(Named(schem.nodes, n).list)
    /\ Len(schem.nodes) = Cardinality(Names(schem.nodes))
    /\ Names(schem.nodes) = UNION {Drawn(addedLog[i]) : i \in DOMAIN addedLog}

\* E1 1 2 3 4 is held and neither controlling terminal has a Node
C19_Witness ==
    /\ "E1" \in Names(schem.elements)
    /\ "1" \in Names(schem.nodes)
    /\ "3" \notin Names(schem.nodes)
    /\ "4" \notin Names(schem.nodes)

\* the components other than open circuits that were appended to the node
Incident(node) == {node.list[k].id : k \in {j \in DOMAIN node.list : node.list[j].type # "O"}}

\* C20 as stated: a node is a port exactly when a 'P' component was appended to
\* it or exactly one component that is not an open circuit touches it, a
\* component with both terminals on the node counting once.
C20_Original ==
    \A i \in DOMAIN schem.nodes :
        LET node == schem.nodes[i]
        IN  port(node) <=> (\/ \E k \in DOMAIN node.list : node.list[k].type = "P"
                            \/ Cardinality(Incident(node)) = 1)

-----------------------------------------------------------------------------
(* A schematic whose node names share root names *)

\* the lines of a netlist with shared nodes
WireLines ==
    {[name |-> "R1", type |-> "R", nodes |-> <<"1", "2">>, opts_string |-> ""],
     [name |-> "R2", type |-> "R", nodes |-> <<"2", "1_1">>, opts_string |-> "down"],
     [name |-> "R3", type |-> "R", nodes |-> <<"1_2", "1">>, opts_string |-> ""],
     [name |-> "R4", type |-> "R", nodes |-> <<"_2", "2">>, opts_string |-> "down"],
     Blank}

WAdd == AddFrom(WireLines)

\* add on a blank line dropping the cached positions
AddLineInvalidating(st, line) ==
    IF line = Blank THEN [st EXCEPT !.sch = _invalidate(@)]
    ELSE The({[sch |-> add(st.sch, cpt), log |-> Append(st.log, cpt),
               printed |-> st.printed \o Diagnostic(st.sch, cpt)] :
              cpt \in {parse(line, Len(st.log) + 1)}})

\* Schematic.add on one line: the schematic, the components added so far and
\* the text printed; a line for which parse returns None changes none of them
AddLine(st, line) ==
    IF line = Blank THEN st
    ELSE The({[sch |-> add(st.sch, cpt), log |-> Append(st.log, cpt),
               printed |-> st.printed \o Diagnostic(st.sch, cpt)] :
              cpt \in {parse(line, Len(st.log) + 1)}})

\* for line in lines: self.add(line), from the i-th line on
RECURSIVE AddLines(_, _, _)
AddLines(st, lines, i) ==
    IF i > Len(lines) THEN st
    ELSE The({AddLines(st1, lines, i + 1) : st1 \in {AddLine(st, lines[i])}})

\* the strings of one to three lines joined by '\n'
Netlists ==
    {<<a>> : a \in WireLines}
        \cup {<<a, b>> : a \in WireLines, b \in WireLines}
        \cup {<<a, b, c>> : a \in WireLines, b \in WireLines, c \in WireLines}

\* the lines that hold a component
NonBlank(lines) == SelectSeq(lines, LAMBDA line : line # Blank)

\* sch.add(string), the string holding the lines of a netlist
WAddNetlist ==
    /\ \E lines \in Netlists :
          /\ Len(addedLog) + Len(NonBlank(lines)) <= MaxAdds
          /\ \E before \in {[sch |-> schem, log |-> addedLog, printed |-> printed]} :
                \E st \in {AddLines(before, lines, 1)} :
                    /\ schem' = st.sch
                    /\ addedLog' = st.log
                    /\ printed' = st.printed
                    /\ lastCall' = [op |-> "add_netlist", axis |-> "", raised |-> "none",
                                    message |-> "",
                                    value |-> [lines |-> lines, before |-> before]]
    /\ UNCHANGED <<nodalVars, cnodesVars, exprVars, graphVars>>

\* sch._make_wires()
WMakeWires ==
    /\ \E r \in {_make_wires(schem)} :
           /\ schem' = r.sch
           /\ lastCall' = [op |-> "_make_wires", axis |-> "", raised |-> "none", message |-> "",
                           value |-> [wires |-> r.wires, before |-> schem]]
    /\ UNCHANGED <<nodalVars, cnodesVars, exprVars, graphVars, addedLog, printed>>

NextWires == WAdd \/ WAddNetlist \/ WMakeWires \/ SReadCoords

SpecWires == InitSch /\ [][NextWires]_vars

-----------------------------------------------------------------------------
(* The two graphs with the last call on them kept *)

\* the most edges a graph holds when the last call is kept
MaxMirrorEdges == 2

\* graphs.add(n1, n2, size)
MAdd ==
    /\ ~Rooted(graphs)
    /\ EdgeCount(graphs.fwd, 1) < MaxMirrorEdges
    /\ \E n1 \in GNodes, n2 \in GNodes, size \in Sizes :
          /\ graphs' = GraphsAdd(graphs, n1, n2, size)
          /\ lastCall' = [op |-> "add", axis |-> "", raised |-> "none", message |-> "",
                          value |-> [n1 |-> n1, n2 |-> n2, size |-> size, before |-> graphs]]
    /\ UNCHANGED <<nodalVars, cnodesVars, exprVars, fwdPath, revPath, schem, addedLog, printed>>

\* graphs.add_start_nodes()
MAddStartNodes ==
    /\ ~Rooted(graphs)
    /\ graphs' = add_start_nodes(graphs)
    /\ lastCall' = [op |-> "add_start_nodes", axis |-> "", raised |-> "none", message |-> "",
                    value |-> [before |-> graphs]]
    /\ UNCHANGED <<nodalVars, cnodesVars, exprVars, fwdPath, revPath, schem, addedLog, printed>>

NextMirror == MAdd \/ MAddStartNodes

SpecMirror == InitGraphs /\ [][NextMirror]_vars

-----------------------------------------------------------------------------
(* A discrete-time sequence and the calls on it *)

\* the indices at which the expressions looked at may be non-zero
Probes == {-10, -1, 0, 2, 9}

\* the nvals arguments: None, and tuples (lo, hi) with lo < hi
NvalsArgs == {"None", <<-10, 10>>, <<0, 3>>, <<-1, 3>>, <<2, 3>>, <<0, 10>>}

InitSeq ==
    /\ NodalIdle
    /\ CnodesIdle
    /\ GraphsIdle
    /\ SchIdle
    /\ sexpr \in SUBSET Probes
    /\ nexpr = NoExpr

\* x.first_index(nvals)
QFirstIndex ==
    /\ \E nvals \in NvalsArgs :
          lastCall' = [op |-> "first_index", axis |-> "", raised |-> "none", message |-> "",
                       value |-> [nvals |-> nvals, index |-> first_index(sexpr, nvals)]]
    /\ UNCHANGED <<nodalVars, cnodesVars, graphVars, exprVars, schem, addedLog, printed>>

\* x.last_index(nvals)
QLastIndex ==
    /\ \E nvals \in NvalsArgs :
          lastCall' = [op |-> "last_index", axis |-> "", raised |-> "none", message |-> "",
                       value |-> [nvals |-> nvals, index |-> last_index(sexpr, nvals)]]
    /\ UNCHANGED <<nodalVars, cnodesVars, graphVars, exprVars, schem, addedLog, printed>>

\* x.seq(nvals)
QSeq ==
    /\ \E nvals \in NvalsArgs :
          lastCall' = [op |-> "seq", axis |-> "", raised |-> "none", message |-> "",
                       value |-> [nvals |-> nvals, seq |-> seq(sexpr, nvals)]]
    /\ UNCHANGED <<nodalVars, cnodesVars, graphVars, exprVars, schem, addedLog, printed>>

NextSeq == QFirstIndex \/ QLastIndex \/ QSeq

SpecSeq == InitSeq /\ [][NextSeq]_vars

-----------------------------------------------------------------------------
(* A discrete-time expression and the calls on it *)

\* the dictionaries over some of the keys, with truth values
Dicts(keys) == UNION {[K -> BOOLEAN] : K \in SUBSET keys}

InitNexpr ==
    /\ NodalIdle
    /\ CnodesIdle
    /\ GraphsIdle
    /\ SchIdle
    /\ sexpr = {}
    /\ \E tests \in [is_dc : BOOLEAN, is_ac : BOOLEAN, is_causal : BOOLEAN],
          given \in Dicts(Inferred) :
          nexpr = NewExpr(tests, given)

\* x.infer_assumptions()
XInferAssumptions ==
    /\ nexpr' = infer_assumptions(nexpr)
    /\ lastCall' = [op |-> "infer_assumptions", axis |-> "", raised |-> "none",
                    message |-> "", value |-> [before |-> nexpr]]
    /\ UNCHANGED <<nodalVars, cnodesVars, graphVars, sexpr, schem, addedLog, printed>>

\* x.merge_assumptions(**kwargs)
XMergeAssumptions ==
    /\ \E kwargs \in Dicts({"causal", "dc", "nid"}) :
          \E r \in {merge_assumptions(nexpr, kwargs)} :
              /\ nexpr' = r.self
              /\ lastCall' = [op |-> "merge_assumptions", axis |-> "", raised |-> "none",
                              message |-> "",
                              value |-> [kwargs |-> kwargs, returned |-> r.returned,
                                         before |-> nexpr]]
    /\ UNCHANGED <<nodalVars, cnodesVars, graphVars, sexpr, schem, addedLog, printed>>

NextNexpr == XInferAssumptions \/ XMergeAssumptions

SpecNexpr == InitNexpr /\ [][NextNexpr]_vars

-----------------------------------------------------------------------------
(* Claims C21 to C30 *)

\* C21: at a node with several voltage sources the equation is the pinning
\* constraint of the first of them in the order of the node's incidence list,
\* and no term of the equation names a later voltage source of that node.
C21_FirstSourcePins ==
    Constructed =>
        \A i \in 1..Len(na.equations) :
            LET e   == na.equations[i]
                src == VoltageSourcesAt(e.node)
            IN  Len(src) >= 2 =>
                    /\ [lhs |-> e.lhs, rhs |-> e.rhs]
                           = PinEquation(cct, na.ydict, na.kind, src[1])
                    /\ \A k \in 2..Len(src) : \A t \in Terms(e) : t.elt # src[k].name

\* two voltage sources at one node, leading to different nodes
C21_Witness ==
    /\ Constructed
    /\ \E i \in 1..Len(na.equations) :
           LET src == VoltageSourcesAt(na.equations[i].node)
           IN  /\ Len(src) >= 2
               /\ src[1].nodenames # src[2].nodenames
               /\ Range(src[1].nodenames) # Range(src[2].nodenames)

\* how often the entry (b, w) stands in the list of a
Count(g, a, b, w) ==
    IF ~HasKey(g, a) THEN 0
    ELSE Cardinality({i \in DOMAIN EdgesAt(g, a) : EdgesAt(g, a)[i] = [to |-> b, size |-> w]})

\* the weights a size of Sizes can be stored with
Weights == {s : s \in {t \in Sizes : t > 0}} \cup {-s : s \in {t \in Sizes : t < 0}}

Mirrored(gs) ==
    /\ Keys(gs.fwd) = Keys(gs.rev)
    /\ \A a \in Keys(gs.fwd), b \in Keys(gs.fwd), w \in Weights :
          Count(gs.fwd, a, b, w) = Count(gs.rev, b, a, w)
    /\ \A g \in {gs.fwd, gs.rev} :
          \A i \in DOMAIN g : \A j \in DOMAIN g[i].edges :
              g[i].edges[j].size > 0 /\ g[i].edges[j].size \in Weights

\* the last call was graphs.add(n1, n2, size)
Added == lastCall.op = "add"

\* C22: up to add_start_nodes the two graphs have the same keys and mirror each
\* other edge for edge with positive weights; an add with a negative size
\* stored the reversed edge with weight -size, one with a positive size the
\* edge itself, and one with size 0 changed neither graph.
C22_ForwardReverseMirror ==
    /\ ~Rooted(graphs) => Mirrored(graphs)
    /\ Added =>
          LET n1     == lastCall.value.n1
              n2     == lastCall.value.n2
              size   == lastCall.value.size
              before == lastCall.value.before
          IN  /\ size = 0 => graphs = before
              /\ size < 0 =>
                    /\ Count(graphs.fwd, n2, n1, -size) = Count(before.fwd, n2, n1, -size) + 1
                    /\ Count(graphs.rev, n1, n2, -size) = Count(before.rev, n1, n2, -size) + 1
              /\ size > 0 =>
                    /\ Count(graphs.fwd, n1, n2, size) = Count(before.fwd, n1, n2, size) + 1
                    /\ Count(graphs.rev, n2, n1, size) = Count(before.rev, n2, n1, size) + 1
              /\ size # 0 =>
                    /\ EdgeCount(graphs.fwd, 1) = EdgeCount(before.fwd, 1) + 1
                    /\ EdgeCount(graphs.rev, 1) = EdgeCount(before.rev, 1) + 1
                    /\ Keys(graphs.fwd) = Keys(before.fwd) \cup {n1, n2}

\* the same edge stored twice, the second time by a call with a negative size
C22_Witness ==
    /\ Added
    /\ lastCall.value.size = -1
    /\ lastCall.value.n1 # lastCall.value.n2
    /\ Count(graphs.fwd, lastCall.value.n2, lastCall.value.n1, 1) = 2
    /\ Count(graphs.rev, lastCall.value.n1, lastCall.value.n2, 1) = 2

\* some edge of g ends at n
HasIncoming(g, n) == \E i \in DOMAIN g : \E j \in DOMAIN g[i].edges : g[i].edges[j].to = n

\* the representatives of g that no edge of g ends at
Sources(g) == {n \in Keys(g) : ~HasIncoming(g, n)}

\* the last call was graphs.add_start_nodes()
StartNodesAdded == lastCall.op = "add_start_nodes"

\* after is g with a 'start' entry linked with weight 0 to each source of g
\* once and to nothing else, every other list of g being as it was
StartOver(g, after) ==
    /\ Keys(after) = Keys(g) \cup {StartKey}
    /\ \A k \in Keys(g) : EdgesAt(after, k) = EdgesAt(g, k)
    /\ LET start == EdgesAt(after, StartKey)
       IN  /\ \A i \in DOMAIN start : start[i].size = 0
           /\ {start[i].to : i \in DOMAIN start} = Sources(g)
           /\ Len(start) = Cardinality(Sources(g))

\* C23: add_start_nodes gives each graph a 'start' entry linked with weight 0
\* to exactly the representatives without incoming edge in that graph, one
\* entry each, and leaves every other edge list as it was; each 'start' list
\* is determined by its own graph.
C23_StartNodes ==
    StartNodesAdded =>
        /\ StartOver(lastCall.value.before.fwd, graphs.fwd)
        /\ StartOver(lastCall.value.before.rev, graphs.rev)

\* three representatives in a chain: the two 'start' lists differ
C23_Witness ==
    /\ StartNodesAdded
    /\ Cardinality(Keys(lastCall.value.before.fwd)) = 3
    /\ Len(EdgesAt(graphs.fwd, StartKey)) = 1
    /\ Len(EdgesAt(graphs.rev, StartKey)) = 1
    /\ EdgesAt(graphs.fwd, StartKey) # EdgesAt(graphs.rev, StartKey)

\* the last call was sch._make_wires()
MadeWires == lastCall.op = "_make_wires"

\* the names of the nodes with root name root, in the order of their first reference
SharedNames(sch, root) ==
    LET named == SelectSeq(sch.nodes, LAMBDA node : RootName(node.name) = root)
    IN  [i \in DOMAIN named |-> named[i].name]

\* the number of wires of the groups from the m-th on
RECURSIVE WireCount(_, _)
WireCount(snodes, m) ==
    IF m > Len(snodes) THEN 0 ELSE (Len(snodes[m].list) - 1) + WireCount(snodes, m + 1)

\* C24: _make_wires returns, for every group of k node names with the same root
\* name taken in first-reference order, the k-1 wires joining consecutive names
\* and no other wire, and leaves the schematic, cached coordinates included,
\* as it was.
C24_ImplicitWires ==
    MadeWires =>
        LET wires == lastCall.value.wires
        IN  /\ schem = lastCall.value.before
            /\ \A m \in DOMAIN schem.snodes :
                  LET group == schem.snodes[m].list
                  IN  /\ group = SharedNames(schem, schem.snodes[m].name)
                      /\ \A k \in 1..(Len(group) - 1) :
                            \E w \in DOMAIN wires :
                                /\ wires[w].type = "W"
                                /\ wires[w].nodes = <<group[k], group[k + 1]>>
            /\ Len(wires) = WireCount(schem.snodes, 1)
            /\ \A n \in Names(schem.nodes) : \E m \in DOMAIN schem.snodes :
                  schem.snodes[m].name = RootName(n)

\* a group of three names and a singleton group, coordinates being cached
C24_Witness ==
    /\ MadeWires
    /\ hasattr(schem, "_coords")
    /\ Len(lastCall.value.wires) = 2
    /\ \E m \in DOMAIN schem.snodes : Len(schem.snodes[m].list) = 3
    /\ \E m \in DOMAIN schem.snodes : Len(schem.snodes[m].list) = 1

\* the last call was sch.add on a netlist of lines
AddedNetlist == lastCall.op = "add_netlist"

\* C25: a line that parses to no component changes nothing, the cached
\* coordinates included, and the other lines of its netlist are added exactly
\* as they are without it.
C25_BlankLineIsNoOp ==
    AddedNetlist =>
        LET lines  == lastCall.value.lines
            before == lastCall.value.before
        IN  /\ NonBlank(lines) = <<>> =>
                  /\ schem = before.sch
                  /\ addedLog = before.log
                  /\ printed = before.printed
            /\ schem = AddLines(before, NonBlank(lines), 1).sch
            /\ addedLog = AddLines(before, NonBlank(lines), 1).log

\* a netlist of nothing but blank lines, added while coordinates are cached
C25_Witness ==
    /\ AddedNetlist
    /\ Len(lastCall.value.lines) >= 2
    /\ NonBlank(lastCall.value.lines) = <<>>
    /\ hasattr(schem, "_coords")
    /\ schem._coords # Nothing

\* both longest_path calls were made and neither raised
Placed == fwdPath.raised = "none" /\ revPath.raised = "none"

\* pos[k], the latest placement of k, and posr[k], the earliest
Latest(k) == revPath.length - fwdPath.memo[k]

Earliest(k) == revPath.memo[k]

\* twice the centred coordinate of k
TwiceCentred(k) == 2 * Centre(Latest(k), Earliest(k))[1] + Centre(Latest(k), Earliest(k))[2]

\* the representatives: the keys other than 'start'
Representatives == Keys(graphs.fwd) \ {StartKey}

\* C26: when both graphs are acyclic, the centred coordinates of the two ends
\* of every stored edge of weight w differ by at least w in the direction of
\* the edge.
C26_MinimumSpan ==
    Placed =>
        \A a \in Representatives : \A i \in DOMAIN EdgesAt(graphs.fwd, a) :
            LET edge == EdgesAt(graphs.fwd, a)[i]
            IN  TwiceCentred(edge.to) - TwiceCentred(a) >= 2 * edge.size

\* an edge of weight 2 beside a chain, and a representative with slack, whose
\* centred coordinate lies between its two placements
C26_Witness ==
    /\ Placed
    /\ \E a \in Representatives : \E i \in DOMAIN EdgesAt(graphs.fwd, a) :
          EdgesAt(graphs.fwd, a)[i].size = 2
    /\ \E k \in Representatives :
          /\ Earliest(k) < Latest(k)
          /\ 2 * Earliest(k) < TwiceCentred(k)
          /\ TwiceCentred(k) < 2 * Latest(k)

\* the forward and the reverse longest paths of the layout graphs gs agree:
\* one length, and for every representative
\* 0 <= earliest <= latest <= length, the centred coordinate between them
PathsAgree(gs, fwd, rev) ==
    (fwd.raised = "none" /\ rev.raised = "none") =>
        /\ fwd.length = rev.length
        /\ \A k \in Keys(gs.fwd) \ {StartKey} :
              LET earliest == rev.memo[k]
                  latest   == rev.length - fwd.memo[k]
                  centred  == Centre(latest, earliest)
              IN  /\ 0 <= earliest
                  /\ earliest <= latest
                  /\ latest <= rev.length
                  /\ 0 <= 2 * centred[1] + centred[2]
                  /\ 2 * centred[1] + centred[2] <= 2 * rev.length

\* the length longest_path gives on the reverse graph of the axis
LengthAlong(axis) ==
    LET gs == GraphsOf(schem, axis) IN longest_path(gs.rev, gs.revname).length

\* C27: on acyclic layout graphs the forward and the reverse longest-path
\* lengths are equal, every representative has
\* 0 <= earliest placement <= latest placement <= length with its centred
\* coordinate in [0, length], and the width and height _positions_calculate
\* stores are that length.
C27_CommonLength ==
    /\ \A axis \in {"horizontal", "vertical"} :
          LET gs == GraphsOf(schem, axis)
          IN  PathsAgree(gs, longest_path(gs.fwd, gs.fwdname), longest_path(gs.rev, gs.revname))
    /\ hasattr(schem, "_xcnodes") =>
          /\ schem.width = LengthAlong("horizontal")
          /\ schem.width = longest_path(GraphsOf(schem, "horizontal").fwd, "").length
    /\ hasattr(schem, "_ycnodes") =>
          /\ schem.height = LengthAlong("vertical")
          /\ schem.height = longest_path(GraphsOf(schem, "vertical").fwd, "").length

\* coordinates were computed for a schematic two units wide and one high,
\* with a node whose earliest and latest placements differ
C27_Witness ==
    /\ hasattr(schem, "_coords")
    /\ schem.width = 2
    /\ schem.height = 1
    /\ LET gs  == GraphsOf(schem, "horizontal")
           fwd == longest_path(gs.fwd, gs.fwdname)
           rev == longest_path(gs.rev, gs.revname)
       IN  \E k \in Keys(gs.fwd) \ {StartKey} : rev.memo[k] < rev.length - fwd.memo[k]

\* how many drawn terminals of the component are the node name
References(cpt, name) ==
    Cardinality({j \in DOMAIN DrawnNodes(cpt) : cpt.type # "K" /\ DrawnNodes(cpt)[j] = name})

\* the sum of f over the indices from i on
RECURSIVE SumFrom(_, _)
SumFrom(f, i) == IF i > Len(f) THEN 0 ELSE f[i] + SumFrom(f, i + 1)

\* C28 as stated: each Node's list holds only components that are in elements,
\* each once per terminal on the node, and count is the number of terminals of
\* the components of elements, open circuits left out, that are on the node.
C28_Original ==
    \A n \in DOMAIN schem.nodes :
        LET node == schem.nodes[n]
        IN  /\ \A k \in DOMAIN node.list : node.list[k] \in Range(schem.elements)
            /\ \A i \in DOMAIN schem.elements :
                  Cardinality({k \in DOMAIN node.list : node.list[k] = schem.elements[i]})
                      = References(schem.elements[i], node.name)
            /\ count(node) =
                  SumFrom([i \in DOMAIN schem.elements |->
                             IF schem.elements[i].type = "O" THEN 0
                             ELSE References(schem.elements[i], node.name)], 1)

\* the indices of the range nvals at which the expression is not zero
NonZero(nvals) == {n \in Range(IndexRange(nvals)) : ValueAt(sexpr, n) # 0}

Least(S) == CHOOSE n \in S : \A m \in S : n <= m

Greatest(S) == CHOOSE n \in S : \A m \in S : m <= n

\* C29 as stated: first_index is the smallest and last_index the largest index
\* of nvals at which the expression is not zero, first_index <= last_index, and
\* seq spans the indices between them; first_index <= last_index also when the
\* expression is zero on all of nvals.
C29_Original ==
    /\ lastCall.op = "first_index" =>
          (NonZero(lastCall.value.nvals) # {}
              => lastCall.value.index = Least(NonZero(lastCall.value.nvals)))
    /\ lastCall.op = "last_index" =>
          (NonZero(lastCall.value.nvals) # {}
              => lastCall.value.index = Greatest(NonZero(lastCall.value.nvals)))
    /\ lastCall.op = "seq" =>
          LET r == lastCall.value.seq
          IN  /\ r.n1 <= r.n2
              /\ Range(r.nvals) = r.n1..r.n2

\* C30: after infer_assumptions the keys 'dc', 'ac' and 'causal' are all set,
\* at most one of them is true, chosen with priority dc, ac, causal whatever
\* the keys held before, and no other key is touched; merge_assumptions
\* returns the stored assumptions overridden by the keyword arguments and
\* leaves the expression as it was.
C30_InferAndMerge ==
    /\ lastCall.op = "infer_assumptions" =>
          LET x == lastCall.value.before
              a == nexpr.assumptions
          IN  /\ DOMAIN a = DOMAIN x.assumptions \cup Inferred
              /\ Cardinality({k \in Inferred : a[k]}) <= 1
              /\ a["dc"] = x.is_dc
              /\ a["ac"] = (~x.is_dc /\ x.is_ac)
              /\ a["causal"] = (~x.is_dc /\ ~x.is_ac /\ x.is_causal)
              /\ \A k \in DOMAIN x.assumptions \ Inferred : a[k] = x.assumptions[k]
              /\ [nexpr EXCEPT !.assumptions = x.assumptions] = x
    /\ lastCall.op = "merge_assumptions" =>
          LET x  == lastCall.value.before
              kw == lastCall.value.kwargs
              r  == lastCall.value.returned
          IN  /\ nexpr = x
              /\ DOMAIN r = DOMAIN x.assumptions \cup DOMAIN kw
              /\ \A k \in DOMAIN kw : r[k] = kw[k]
              /\ \A k \in DOMAIN x.assumptions \ DOMAIN kw : r[k] = x.assumptions[k]

\* an expression that passes the dc and the ac test and held causal = True:
\* only 'dc' is true afterwards
C30_Witness ==
    /\ lastCall.op = "infer_assumptions"
    /\ lastCall.value.before.is_dc
    /\ lastCall.value.before.is_ac
    /\ "causal" \in DOMAIN lastCall.value.before.assumptions
    /\ lastCall.value.before.assumptions["causal"]
    /\ nexpr.assumptions["dc"]
    /\ ~nexpr.assumptions["causal"]

====
